---- MODULE Spec2Model ----
(***************************************************************************)
(* A model of parallelopedia's title index: the parallel builder           *)
(* (util.extract_and_save_all_chars_parallel), the parallel loader         *)
(* (wiki.load_wiki_tries_parallel) and the range resolver                  *)
(* (wiki.get_page_offsets_for_key, WikiApp.wiki).                          *)
(*                                                                         *)
(* Strings are sequences of character codes; a datrie.Trie is a function   *)
(* from keys (strings) to offset lists (sequences of integers).            *)
(***************************************************************************)
EXTENDS Integers, Sequences, FiniteSets, TLC

VARIABLES
    trie,           \* the full, unpartitioned source trie (titles.trie)
    dir,            \* the data directory: file base name -> saved trie
    bpc,            \* build driver: "idle", "running", "returned"
    bjobs,          \* build futures, one per index of ALLOWED
    bseen,          \* build futures already yielded by as_completed
    bprinted,       \* build futures whose exception the driver printed
    lpc,            \* load driver: "idle", "running", "returned", "raised"
    paths_by_first_char, \* the dict made by get_wiki_tries
    ljobs,          \* load futures, one per key of paths_by_first_char
    lseen,          \* load futures already yielded by as_completed
    lprinted,       \* load futures whose exception the driver printed
    tries,          \* the local list `tries` of load_wiki_tries_parallel
    TITLE_TRIES,    \* the module global: published index
    TITLE_OFFSETS,  \* the module global: sorted offset table
    query,          \* the last string given to a lookup entry point
    result,         \* what get_page_offsets_for_key did with it
    wresp,          \* what the wiki route did with it
    tresp,          \* what exact_title or the title route did with it
    pure,           \* the last direct call of a helper function
    nreq,           \* the number of lookups or helper calls so far
    max_threads     \* the size of the worker pool of the drivers

vars == <<trie, dir, bpc, bjobs, bseen, bprinted, lpc, paths_by_first_char,
          ljobs, lseen, lprinted, tries, TITLE_TRIES, TITLE_OFFSETS,
          query, result, wresp, tresp, pure, nreq, max_threads>>

(***************************************************************************)
(* Bounds of the model.                                                    *)
(***************************************************************************)
MaxWorkers == 2         \* os.cpu_count() of the modelled machine
UIntBits == 20          \* width standing for numpy's 64 bits
CorpusLen == 12000      \* WIKI_XML_SIZE of the modelled corpus
MaxRequests == 1        \* lookups served in one behaviour
MaxCalls == 2           \* direct helper calls in one behaviour

(***************************************************************************)
(* Program constants.                                                      *)
(***************************************************************************)
PARTITIONS == 127
uint64_7 == 7
uint64_11 == 11

\* A subsequence of string.printable + string.punctuation: 'A' and '!' from
\* string.printable, and '!' once more from string.punctuation.
ALLOWED == <<65, 33, 33>>

ORD_ALLOWED == {ALLOWED[i] : i \in DOMAIN ALLOWED}

(***************************************************************************)
(* Strings.                                                                *)
(***************************************************************************)
Underscore == 95
Digit0 == 48
Dash == 45

IsPrefix(p, s) == Len(p) <= Len(s) /\ SubSeq(s, 1, Len(p)) = p

\* Python's str ordering: lexicographic by code point.
LexLess(a, b) ==
    \/ \E i \in 1..Len(a) :
          /\ i <= Len(b)
          /\ a[i] < b[i]
          /\ \A j \in 1..(i - 1) : a[j] = b[j]
    \/ Len(a) < Len(b) /\ SubSeq(b, 1, Len(a)) = a

RECURSIVE SetToSortedSeq(_)
SetToSortedSeq(S) ==
    IF S = {} THEN <<>>
    ELSE LET m == CHOOSE x \in S : \A y \in S \ {x} : LexLess(x, y)
         IN <<m>> \o SetToSortedSeq(S \ {m})

\* str(n) for n >= 0.
RECURSIVE Str(_)
Str(n) == IF n < 10 THEN <<Digit0 + n>>
          ELSE Str(n \div 10) \o <<Digit0 + (n % 10)>>

\* s.zfill(3)
RECURSIVE ZFill3(_)
ZFill3(s) == IF Len(s) >= 3 THEN s ELSE ZFill3(<<Digit0>> \o s)

IsDigits(s) == Len(s) > 0 /\ \A i \in DOMAIN s : s[i] \in Digit0..(Digit0 + 9)

\* int(s) for a string of decimal digits.
RECURSIVE ParseInt(_)
ParseInt(s) == IF Len(s) = 0 THEN 0
               ELSE 10 * ParseInt(SubSeq(s, 1, Len(s) - 1))
                    + (s[Len(s)] - Digit0)

\* s.split('_')
RECURSIVE Split(_)
Split(s) ==
    IF \A i \in DOMAIN s : s[i] # Underscore THEN <<s>>
    ELSE LET i == CHOOSE k \in DOMAIN s :
                      /\ s[k] = Underscore
                      /\ \A j \in 1..(k - 1) : s[j] # Underscore
         IN <<SubSeq(s, 1, i - 1)>> \o Split(SubSeq(s, i + 1, Len(s)))

(***************************************************************************)
(* Tries.                                                                  *)
(***************************************************************************)
EmptyTrie == [k \in {} |-> <<>>]

\* trie.items(): every (key, value) pair, whatever the prefix.
ItemsAll(t, prefix) ==
    LET ks == SetToSortedSeq(DOMAIN t)
    IN [i \in DOMAIN ks |-> <<ks[i], t[ks[i]]>>]

\* trie.items(prefix): the (key, value) pairs whose key starts with prefix,
\* in key order.
Items(t, prefix) ==
    LET ks == SetToSortedSeq({k \in DOMAIN t : IsPrefix(prefix, k)})
    IN [i \in DOMAIN ks |-> <<ks[i], t[ks[i]]>>]

Range(s) == {s[i] : i \in DOMAIN s}

\* list.sort() of a list of distinct integers.
RECURSIVE SortInts(_)
SortInts(S) ==
    IF S = {} THEN <<>>
    ELSE LET m == CHOOSE x \in S : \A y \in S : x <= y
         IN <<m>> \o SortInts(S \ {m})

\* The inner loop without its `v not in existing` test and its sort.
MergeAppendAll(existing, value) == existing \o value

\* The inner loop of extract_trie: append each v of value that is not in
\* existing, sorting after each append.
RECURSIVE MergeValues(_, _)
MergeValues(existing, value) ==
    IF value = <<>> THEN existing
    ELSE LET v == Head(value)
         IN IF v \in Range(existing)
            THEN MergeValues(existing, Tail(value))
            ELSE MergeValues(SortInts(Range(existing) \cup {v}), Tail(value))

RECURSIVE ExtractItems(_, _)
ExtractItems(res, items) ==
    IF items = <<>> THEN res
    ELSE LET key == Head(items)[1]
             value == Head(items)[2]
             next == IF key \in DOMAIN res
                     THEN [res EXCEPT ![key] = MergeValues(res[key], value)]
                     ELSE [k \in DOMAIN res \cup {key} |->
                              IF k = key THEN value ELSE res[k]]
         IN ExtractItems(next, Tail(items))

\* extract_trie(trie, chars): chars is a sequence of prefixes (strings).
RECURSIVE ExtractInto(_, _, _)
ExtractInto(res, t, chars) ==
    IF chars = <<>> THEN res
    ELSE ExtractInto(ExtractItems(res, Items(t, Head(chars))), t, Tail(chars))

extract_trie(t, chars) == ExtractInto(EmptyTrie, t, chars)

\* '-'.join(str(ord(c)).zfill(3) for c in chars)
RECURSIVE JoinOrds(_)
JoinOrds(chars) ==
    IF Len(chars) = 1 THEN ZFill3(Str(chars[1][1]))
    ELSE ZFill3(Str(chars[1][1])) \o <<Dash>> \o JoinOrds(Tail(chars))

\* The file name extract_and_save gives to its result, without the
\* 'wiki-' and '.trie' that get_wiki_tries strips again.
FileName(chars, num_results) ==
    JoinOrds(chars) \o <<Underscore>> \o Str(num_results)

\* extract_and_save(trie, chars) on directory d: the directory afterwards.
extract_and_save(d, t, chars) ==
    LET res == extract_trie(t, chars)
        num_results == Cardinality(DOMAIN res)
        filename == FileName(chars, num_results)
    IN IF num_results = 0 THEN d
       ELSE IF \E i \in DOMAIN chars : Len(chars[i]) # 1
       THEN d   \* ord(c) raises TypeError before result.save
       ELSE [f \in DOMAIN d \cup {filename} |->
                IF f = filename THEN res ELSE d[f]]

(***************************************************************************)
(* The source tries the model starts from.  Every offset is the position   *)
(* of one <title> tag of the corpus, so no two entries share an absolute   *)
(* value; a negative entry is a flagged offset.                            *)
(***************************************************************************)
Keys == {<<65>>, <<65, 66>>, <<33>>}
AbsOffsets == {1007, 5000, 9000}
NoKey == <<>>

Abs(v) == IF v > 0 THEN v ELSE v * (-1)

\* owner[a] is the key the <title> at a belongs to (NoKey: not indexed),
\* neg is the set of flagged offsets.
TrieOf(owner, neg) ==
    [k \in {owner[a] : a \in AbsOffsets} \ {NoKey} |->
        SortInts({IF a \in neg THEN 0 - a ELSE a :
                     a \in {b \in AbsOffsets : owner[b] = k}})]

SourceTries ==
    {TrieOf(owner, neg) :
        owner \in [AbsOffsets -> Keys \cup {NoKey}],
        neg \in {{}, {5000}}} \ {EmptyTrie}

\* get_sorted_values_from_trie without the abs() of its first line.
get_sorted_values_signed(t) ==
    SortInts(UNION {Range(t[k]) : k \in DOMAIN t})

\* get_sorted_values_from_trie(trie)
get_sorted_values_from_trie(t) ==
    SortInts(UNION {{Abs(t[k][i]) : i \in DOMAIN t[k]} : k \in DOMAIN t})

\* A partition file left behind by an earlier build of ordinal 065.
StaleName == <<48, 54, 53, 95, 57>>
StaleTrie == [k \in {<<65>>} |-> <<1007>>]

\* A file wiki-065.trie, whose name has one field.
MalformedName == <<48, 54, 53>>

InitialDirs ==
    {EmptyTrie, [f \in {StaleName} |-> StaleTrie],
     [f \in {MalformedName} |-> StaleTrie]}

\* A file wiki-200_1.trie, whose ordinal has no slot.
OutOfRangeName == <<50, 48, 48, 95, 49>>

(***************************************************************************)
(* The loader.                                                             *)
(***************************************************************************)
\* sorted(glob.glob(f'{directory}/wiki-*.trie')), as base names.
get_wiki_tries_in_dir(d) == SetToSortedSeq(DOMAIN d)

\* The loop of get_wiki_tries over the sorted paths: a later path with the
\* same ordinal replaces the earlier one in the dict.
RECURSIVE GetWikiTriesLoop(_, _)
GetWikiTriesLoop(res, paths) ==
    IF paths = <<>> THEN [kind |-> "ok", map |-> res]
    ELSE LET base == Head(paths)
             parts == Split(base)
         IN IF Len(parts) # 2
            THEN [kind |-> "AssertionError", map |-> EmptyTrie]
            ELSE IF ~IsDigits(parts[1])
            THEN [kind |-> "ValueError", map |-> EmptyTrie]
            ELSE LET char == ParseInt(parts[1])
                 IN GetWikiTriesLoop(
                        [c \in DOMAIN res \cup {char} |->
                            IF c = char THEN base ELSE res[c]],
                        Tail(paths))

\* get_wiki_tries that skips the names that do not have two fields.
get_wiki_tries_lenient(d) ==
    GetWikiTriesLoop(EmptyTrie,
                     SelectSeq(get_wiki_tries_in_dir(d),
                               LAMBDA f : Len(Split(f)) = 2))

get_wiki_tries(d) == GetWikiTriesLoop(EmptyTrie, get_wiki_tries_in_dir(d))

\* A slot of the list `tries`: None, or a loaded trie.
None == [loaded |-> FALSE, t |-> EmptyTrie]
Loaded(t) == [loaded |-> TRUE, t |-> t]

\* `ord(char) not in tries` compares an int with each element of a list of
\* None and datrie.Trie objects; no such comparison is ever equal.
IntEqualsSlot(n, slot) == FALSE

OrdInTries(n, ts) == \E i \in DOMAIN ts : IntEqualsSlot(n, ts[i])

\* `not titles`: None, or a trie of length zero.
Falsy(slot) == ~slot.loaded \/ DOMAIN slot.t = {}

(***************************************************************************)
(* The resolver.                                                           *)
(***************************************************************************)
UIntMod == 2 ^ UIntBits

\* a - b on numpy unsigned scalars.
USub(a, b) == (a - b) % UIntMod

\* offsets.searchsorted(o, side='left'), zero-based.
SearchSortedLeft(offsets, o) ==
    Cardinality({j \in DOMAIN offsets : offsets[j] < o})

\* offsets.searchsorted(o, side='right'), zero-based.
SearchSortedRight(offsets, o) ==
    Cardinality({j \in DOMAIN offsets : offsets[j] <= o})

Ret(kind, val) == [kind |-> kind, val |-> val]

\* `value[0]`: the offset a range is computed from.
LastOffset(value) == value[Len(value)]

FirstOffset(value) == value[1]

\* The loop of get_page_offsets_for_key over items.
RECURSIVE PageOffsetsLoop(_, _, _)
PageOffsetsLoop(results, items, offsets) ==
    IF items = <<>> THEN Ret("list", results)
    ELSE LET key == Head(items)[1]
             value == Head(items)[2]
             v == FirstOffset(value)
             o == Abs(v)
             ix == SearchSortedRight(offsets, o)
         IN IF ix >= Len(offsets) THEN Ret("IndexError", <<>>)
            ELSE PageOffsetsLoop(
                     Append(results, <<key, USub(o, uint64_7),
                                       USub(offsets[ix + 1], uint64_11)>>),
                     Tail(items), offsets)

get_page_offsets_for_key(search_string, title_tries, offsets) ==
    IF Len(search_string) < 1 THEN Ret("None", <<>>)
    ELSE IF search_string[1] >= Len(title_tries) THEN Ret("IndexError", <<>>)
    ELSE LET titles == title_tries[search_string[1] + 1]
         IN IF Falsy(titles) THEN Ret("list", <<>>)
            ELSE LET items == Items(titles.t, search_string)
                 IN IF items = <<>> THEN Ret("list", <<>>)
                    ELSE PageOffsetsLoop(<<>>, items, offsets)

\* WikiApp.wiki(request, name)
wiki(name, title_tries, offsets) ==
    IF Len(name) < 1 THEN Ret("400", <<>>)
    ELSE IF name[1] >= Len(title_tries) THEN Ret("IndexError", <<>>)
    ELSE LET titles == title_tries[name[1] + 1]
         IN IF Falsy(titles) \/ name \notin DOMAIN titles.t
            THEN Ret("404", <<>>)
            ELSE LET o == Abs(FirstOffset(titles.t[name]))
                     ix == SearchSortedRight(offsets, o)
                 IN IF ix >= Len(offsets) THEN Ret("IndexError", <<>>)
                    ELSE Ret("range", <<USub(o, uint64_7),
                                        USub(offsets[ix + 1], uint64_11)>>)

TRet(entry, kind, val) == [entry |-> entry, kind |-> kind, val |-> val]

\* exact_title without the length check: title[0] of the empty string
\* raises IndexError.
exact_title_unchecked(title, title_tries) ==
    IF Len(title) < 1 THEN TRet("exact_title", "IndexError", <<>>)
    ELSE IF title[1] >= Len(title_tries)
    THEN TRet("exact_title", "IndexError", <<>>)
    ELSE LET titles == title_tries[title[1] + 1]
         IN IF ~titles.loaded THEN TRet("exact_title", "TypeError", <<>>)
            ELSE IF title \in DOMAIN titles.t
            THEN TRet("exact_title", "json", << <<title>> \o titles.t[title] >>)
            ELSE TRet("exact_title", "json", <<>>)

\* exact_title(title): the JSON list it returns, or the exception of
\* `title in titles` on a slot that is None.
exact_title(title, title_tries) ==
    IF Len(title) < 1 THEN TRet("exact_title", "json", <<>>)
    ELSE IF title[1] >= Len(title_tries)
    THEN TRet("exact_title", "IndexError", <<>>)
    ELSE LET titles == title_tries[title[1] + 1]
         IN IF ~titles.loaded THEN TRet("exact_title", "TypeError", <<>>)
            ELSE IF title \in DOMAIN titles.t
            THEN TRet("exact_title", "json",
                      << <<title>> \o titles.t[title] >>)
            ELSE TRet("exact_title", "json", <<>>)

\* WikiApp.title(request, name)
title(name, title_tries) ==
    IF Len(name) < 1 THEN TRet("title", "400", <<>>)
    ELSE IF name[1] >= Len(title_tries) THEN TRet("title", "IndexError", <<>>)
    ELSE LET titles == title_tries[name[1] + 1]
         IN IF Falsy(titles) \/ name \notin DOMAIN titles.t
            THEN TRet("title", "404", <<>>)
            ELSE TRet("title", "200", Items(titles.t, name))

\* WikiApp.offsets(request, name): a missing name and a name shorter than
\* 3 characters are refused, the others go to get_page_offsets_for_key.
offsets(name, title_tries, title_offsets) ==
    IF Len(name) = 0 THEN TRet("offsets", "400", <<>>)
    ELSE IF Len(name) < 3 THEN TRet("offsets", "400", <<>>)
    ELSE LET r == get_page_offsets_for_key(name, title_tries, title_offsets)
         IN TRet("offsets", r.kind, r.val)

\* What a driver called directly hands to its caller: its return value or
\* the exception that leaves it.
DRet(kind, val) == <<kind, val>>

\* min(a, b)
Min(a, b) == IF a <= b THEN a ELSE b

\* ThreadPoolExecutor(max_workers=n) raises ValueError for n <= 0.
PoolRaises(max_workers) == max_workers <= 0

\* load_freq_tries_parallel(directory) with max_threads = 0, on a machine
\* of cpu_count processors: paths are the files found, failed the indices
\* (from 1) of the paths whose load_trie raises.
load_freq_tries_parallel(paths, failed, cpu_count) ==
    LET num_paths == Len(paths)
        pool == Min(cpu_count, num_paths)
    IN IF PoolRaises(pool) THEN DRet("ValueError", <<>>)
       ELSE DRet("return",
                 [i \in 1..num_paths |->
                     IF i \in failed THEN None ELSE Loaded(StaleTrie)])

\* get_classes_from_strings_parallel(class_names): failed are the indices
\* of the names whose get_class_from_string raises, order is the order in
\* which the futures complete.
get_classes_from_strings_parallel(class_names, failed, order, cpu_count) ==
    LET max_workers == Min(cpu_count, Len(class_names))
    IN IF PoolRaises(max_workers) THEN DRet("ValueError", <<>>)
       ELSE IF failed # {} THEN DRet("Exception", <<>>)
       ELSE DRet("return", [i \in DOMAIN order |-> class_names[order[i]]])

(***************************************************************************)
(* The state machine.                                                      *)
(***************************************************************************)
\* The strings given to the lookup entry points: '', 'A', 'AB', 'B', '!',
\* 'C' and 'é'.
Queries == {<<>>, <<65>>, <<65, 66>>, <<66>>, <<33>>, <<67>>, <<233>>}

\* The names given to the offsets route: '', 'AB' and 'ABC'.
OffsetsQueries == {<<>>, <<65, 66>>, <<65, 66, 67>>}

NoRet == Ret("none", <<>>)
NoTRet == TRet("none", "none", <<>>)
NoPure == [op |-> "none", arg |-> <<>>, val |-> <<>>]

Running(jobs) == {j \in DOMAIN jobs : jobs[j] = "running"}
Completed(jobs) == {j \in DOMAIN jobs : jobs[j] \in {"ok", "failed"}}

Init ==
    /\ trie \in SourceTries
    /\ dir \in InitialDirs
    /\ bpc = "idle"
    /\ bjobs = [i \in DOMAIN ALLOWED |-> "none"]
    /\ bseen = {}
    /\ bprinted = {}
    /\ lpc = "idle"
    /\ paths_by_first_char = EmptyTrie
    /\ ljobs = EmptyTrie
    /\ lseen = {}
    /\ lprinted = {}
    /\ tries = <<>>
    /\ TITLE_TRIES = <<>>
    /\ TITLE_OFFSETS = <<>>
    /\ query = <<>>
    /\ result = NoRet
    /\ wresp = NoRet
    /\ tresp = NoTRet
    /\ pure = NoPure
    /\ nreq = 0
    /\ max_threads = MaxWorkers

\* extract_and_save_all_chars_parallel: one extract_and_save is submitted
\* for every c in ALLOWED.
BuildSubmit ==
    /\ bpc = "idle"
    /\ bpc' = "running"
    /\ bjobs' = [i \in DOMAIN ALLOWED |-> "queued"]
    /\ UNCHANGED <<max_threads, pure, nreq, trie, dir, bseen, bprinted, lpc, paths_by_first_char,
                   ljobs, lseen, lprinted, tries, TITLE_TRIES,
                   TITLE_OFFSETS, query, result, wresp, tresp>>

\* A worker thread of the pool takes a queued job.
BuildJobStart(i) ==
    /\ bpc = "running"
    /\ bjobs[i] = "queued"
    /\ Cardinality(Running(bjobs)) < max_threads
    /\ bjobs' = [bjobs EXCEPT ![i] = "running"]
    /\ UNCHANGED <<max_threads, pure, nreq, trie, dir, bpc, bseen, bprinted, lpc, paths_by_first_char,
                   ljobs, lseen, lprinted, tries, TITLE_TRIES,
                   TITLE_OFFSETS, query, result, wresp, tresp>>

\* extract_and_save(trie, (c,)) runs to its end.
BuildJobOk(i) ==
    /\ bjobs[i] = "running"
    /\ bjobs' = [bjobs EXCEPT ![i] = "ok"]
    /\ dir' = extract_and_save(dir, trie, << <<ALLOWED[i]>> >>)
    /\ UNCHANGED <<max_threads, pure, nreq, trie, bpc, bseen, bprinted, lpc, paths_by_first_char,
                   ljobs, lseen, lprinted, tries, TITLE_TRIES,
                   TITLE_OFFSETS, query, result, wresp, tresp>>

\* A failing extract_and_save that takes the queued jobs down with it.
BuildJobFailAbort(i) ==
    /\ bjobs[i] = "running"
    /\ extract_trie(trie, << <<ALLOWED[i]>> >>) # EmptyTrie
    /\ bjobs' = [j \in DOMAIN bjobs |->
                    IF j = i \/ bjobs[j] = "queued" THEN "failed"
                    ELSE bjobs[j]]
    /\ UNCHANGED <<max_threads, pure, nreq, trie, dir, bpc, bseen, bprinted, lpc, paths_by_first_char,
                   ljobs, lseen, lprinted, tries, TITLE_TRIES,
                   TITLE_OFFSETS, query, result, wresp, tresp>>

\* extract_and_save(trie, (c,)) raises in result.save(filename).
BuildJobFail(i) ==
    /\ bjobs[i] = "running"
    /\ extract_trie(trie, << <<ALLOWED[i]>> >>) # EmptyTrie
    /\ bjobs' = [bjobs EXCEPT ![i] = "failed"]
    /\ UNCHANGED <<max_threads, pure, nreq, trie, dir, bpc, bseen, bprinted, lpc, paths_by_first_char,
                   ljobs, lseen, lprinted, tries, TITLE_TRIES,
                   TITLE_OFFSETS, query, result, wresp, tresp>>

\* An as_completed loop that never yields a future that raised.
BuildYieldOkOnly(i) ==
    /\ bpc = "running"
    /\ i \in Completed(bjobs) \ bseen
    /\ bjobs[i] = "ok"
    /\ bseen' = bseen \cup {i}
    /\ UNCHANGED bprinted
    /\ UNCHANGED <<max_threads, pure, nreq, trie, dir, bpc, bjobs, lpc, paths_by_first_char,
                   ljobs, lseen, lprinted, tries, TITLE_TRIES,
                   TITLE_OFFSETS, query, result, wresp, tresp>>

\* One iteration of `for future in as_completed(futures)` of the builder.
BuildYield(i) ==
    /\ bpc = "running"
    /\ i \in Completed(bjobs) \ bseen
    /\ bseen' = bseen \cup {i}
    /\ bprinted' = IF bjobs[i] = "failed" THEN bprinted \cup {i} ELSE bprinted
    /\ UNCHANGED <<max_threads, pure, nreq, trie, dir, bpc, bjobs, lpc, paths_by_first_char,
                   ljobs, lseen, lprinted, tries, TITLE_TRIES,
                   TITLE_OFFSETS, query, result, wresp, tresp>>

\* The build driver returns without consuming its futures.
BuildReturnEarly ==
    /\ bpc = "running"
    /\ bpc' = "returned"
    /\ UNCHANGED <<max_threads, pure, nreq, trie, dir, bjobs, bseen, bprinted, lpc,
                   paths_by_first_char, ljobs, lseen, lprinted, tries,
                   TITLE_TRIES, TITLE_OFFSETS, query, result, wresp, tresp>>

\* The loop is exhausted; the function returns None.
BuildReturn ==
    /\ bpc = "running"
    /\ bseen = DOMAIN bjobs
    /\ bpc' = "returned"
    /\ UNCHANGED <<max_threads, pure, nreq, trie, dir, bjobs, bseen, bprinted, lpc,
                   paths_by_first_char, ljobs, lseen, lprinted, tries,
                   TITLE_TRIES, TITLE_OFFSETS, query, result, wresp, tresp>>

\* Import of wiki.py: TITLE_OFFSETS is loaded, then
\* load_wiki_tries_parallel(DATA_DIR) calls get_wiki_tries and submits one
\* load_trie per entry of the dict.
LoadSubmit ==
    /\ bpc = "returned"
    /\ lpc = "idle"
    /\ TITLE_OFFSETS' = get_sorted_values_from_trie(trie)
    /\ LET r == get_wiki_tries(dir)
       IN IF r.kind = "ok"
          THEN /\ lpc' = "running"
               /\ paths_by_first_char' = r.map
               /\ tries' = [i \in 1..PARTITIONS |-> None]
               /\ ljobs' = [c \in DOMAIN r.map |-> "queued"]
          ELSE /\ lpc' = "raised"
               /\ UNCHANGED <<paths_by_first_char, tries, ljobs>>
    /\ UNCHANGED <<max_threads, pure, nreq, trie, dir, bpc, bjobs, bseen, bprinted, lseen, lprinted,
                   TITLE_TRIES, query, result, wresp, tresp>>

LoadJobStart(c) ==
    /\ lpc = "running"
    /\ ljobs[c] = "queued"
    /\ Cardinality(Running(ljobs)) < max_threads
    /\ ljobs' = [ljobs EXCEPT ![c] = "running"]
    /\ UNCHANGED <<max_threads, pure, nreq, trie, dir, bpc, bjobs, bseen, bprinted, lpc,
                   paths_by_first_char, lseen, lprinted, tries, TITLE_TRIES,
                   TITLE_OFFSETS, query, result, wresp, tresp>>

\* load_trie(path) returns the trie.
LoadJobOk(c) ==
    /\ ljobs[c] = "running"
    /\ ljobs' = [ljobs EXCEPT ![c] = "ok"]
    /\ UNCHANGED <<max_threads, pure, nreq, trie, dir, bpc, bjobs, bseen, bprinted, lpc,
                   paths_by_first_char, lseen, lprinted, tries, TITLE_TRIES,
                   TITLE_OFFSETS, query, result, wresp, tresp>>

\* load_trie(path) raises in datrie.Trie.load(path).
LoadJobFail(c) ==
    /\ ljobs[c] = "running"
    /\ ljobs' = [ljobs EXCEPT ![c] = "failed"]
    /\ UNCHANGED <<max_threads, pure, nreq, trie, dir, bpc, bjobs, bseen, bprinted, lpc,
                   paths_by_first_char, lseen, lprinted, tries, TITLE_TRIES,
                   TITLE_OFFSETS, query, result, wresp, tresp>>

\* One iteration of `for future in as_completed(futures)` of the loader:
\* the body of the try, and the except that prints.
LoadYield(c) ==
    /\ lpc = "running"
    /\ c \in Completed(ljobs) \ lseen
    /\ lseen' = lseen \cup {c}
    /\ IF ljobs[c] = "failed"
          \/ OrdInTries(c, tries)
          \/ c >= Len(tries)
       THEN /\ lprinted' = lprinted \cup {c}
            /\ UNCHANGED tries
       ELSE /\ tries' = [tries EXCEPT
                            ![c + 1] = Loaded(dir[paths_by_first_char[c]])]
            /\ UNCHANGED lprinted
    /\ UNCHANGED <<max_threads, pure, nreq, trie, dir, bpc, bjobs, bseen, bprinted, lpc,
                   paths_by_first_char, ljobs, TITLE_TRIES,
                   TITLE_OFFSETS, query, result, wresp, tresp>>

\* The function returns `tries` without waiting for the futures.
LoadReturnEarly ==
    /\ lpc = "running"
    /\ lpc' = "returned"
    /\ TITLE_TRIES' = tries
    /\ UNCHANGED <<max_threads, pure, nreq, trie, dir, bpc, bjobs, bseen, bprinted,
                   paths_by_first_char, ljobs, lseen, lprinted, tries,
                   TITLE_OFFSETS, query, result, wresp, tresp>>

\* The loop is exhausted; load_wiki_tries_parallel returns `tries`, which
\* the module assigns to TITLE_TRIES.
LoadReturn ==
    /\ lpc = "running"
    /\ lseen = DOMAIN ljobs
    /\ lpc' = "returned"
    /\ TITLE_TRIES' = tries
    /\ UNCHANGED <<max_threads, pure, nreq, trie, dir, bpc, bjobs, bseen, bprinted,
                   paths_by_first_char, ljobs, lseen, lprinted, tries,
                   TITLE_OFFSETS, query, result, wresp, tresp>>

\* A get_page_offsets_for_key(q) that fills an unpopulated slot with an
\* empty trie on its way.
ResolvePopulating(q) ==
    /\ lpc = "returned"
    /\ nreq < MaxRequests
    /\ nreq' = nreq + 1
    /\ query' = q
    /\ result' = get_page_offsets_for_key(q, TITLE_TRIES, TITLE_OFFSETS)
    /\ wresp' = NoRet
    /\ tresp' = NoTRet
    /\ TITLE_TRIES' = IF Len(q) >= 1 /\ q[1] < Len(TITLE_TRIES)
                         /\ ~TITLE_TRIES[q[1] + 1].loaded
                      THEN [TITLE_TRIES EXCEPT ![q[1] + 1] = Loaded(EmptyTrie)]
                      ELSE TITLE_TRIES
    /\ UNCHANGED <<max_threads, pure, trie, dir, bpc, bjobs, bseen, bprinted, lpc,
                   paths_by_first_char, ljobs, lseen, lprinted, tries,
                   TITLE_OFFSETS>>

\* A call of get_page_offsets_for_key(q).
Resolve(q) ==
    /\ lpc = "returned"
    /\ nreq < MaxRequests
    /\ nreq' = nreq + 1
    /\ query' = q
    /\ result' = get_page_offsets_for_key(q, TITLE_TRIES, TITLE_OFFSETS)
    /\ wresp' = NoRet
    /\ tresp' = NoTRet
    /\ UNCHANGED <<max_threads, pure, trie, dir, bpc, bjobs, bseen, bprinted, lpc,
                   paths_by_first_char, ljobs, lseen, lprinted, tries,
                   TITLE_TRIES, TITLE_OFFSETS>>

\* A request routed to WikiApp.wiki with name q.
WikiRoute(q) ==
    /\ lpc = "returned"
    /\ nreq < MaxRequests
    /\ nreq' = nreq + 1
    /\ query' = q
    /\ wresp' = wiki(q, TITLE_TRIES, TITLE_OFFSETS)
    /\ result' = NoRet
    /\ tresp' = NoTRet
    /\ UNCHANGED <<max_threads, pure, trie, dir, bpc, bjobs, bseen, bprinted, lpc,
                   paths_by_first_char, ljobs, lseen, lprinted, tries,
                   TITLE_TRIES, TITLE_OFFSETS>>

\* A call of exact_title(q).
ExactTitle(q) ==
    /\ lpc = "returned"
    /\ nreq < MaxRequests
    /\ nreq' = nreq + 1
    /\ query' = q
    /\ tresp' = exact_title(q, TITLE_TRIES)
    /\ result' = NoRet
    /\ wresp' = NoRet
    /\ UNCHANGED <<max_threads, pure, trie, dir, bpc, bjobs, bseen, bprinted, lpc,
                   paths_by_first_char, ljobs, lseen, lprinted, tries,
                   TITLE_TRIES, TITLE_OFFSETS>>

\* A request routed to WikiApp.title with name q.
TitleRoute(q) ==
    /\ lpc = "returned"
    /\ nreq < MaxRequests
    /\ nreq' = nreq + 1
    /\ query' = q
    /\ tresp' = title(q, TITLE_TRIES)
    /\ result' = NoRet
    /\ wresp' = NoRet
    /\ UNCHANGED <<max_threads, pure, trie, dir, bpc, bjobs, bseen, bprinted, lpc,
                   paths_by_first_char, ljobs, lseen, lprinted, tries,
                   TITLE_TRIES, TITLE_OFFSETS>>

\* A request routed to WikiApp.offsets with name q.
OffsetsRoute(q) ==
    /\ lpc = "returned"
    /\ nreq < MaxRequests
    /\ nreq' = nreq + 1
    /\ query' = q
    /\ tresp' = offsets(q, TITLE_TRIES, TITLE_OFFSETS)
    /\ result' = NoRet
    /\ wresp' = NoRet
    /\ UNCHANGED <<max_threads, pure, trie, dir, bpc, bjobs, bseen, bprinted, lpc,
                   paths_by_first_char, ljobs, lseen, lprinted, tries,
                   TITLE_TRIES, TITLE_OFFSETS>>

Next ==
    \/ BuildSubmit
    \/ \E i \in DOMAIN ALLOWED : BuildJobStart(i)
    \/ \E i \in DOMAIN ALLOWED : BuildJobOk(i)
    \/ \E i \in DOMAIN ALLOWED : BuildJobFail(i)
    \/ \E i \in DOMAIN ALLOWED : BuildYield(i)
    \/ BuildReturn
    \/ LoadSubmit
    \/ \E c \in DOMAIN ljobs : LoadJobStart(c)
    \/ \E c \in DOMAIN ljobs : LoadJobOk(c)
    \/ \E c \in DOMAIN ljobs : LoadJobFail(c)
    \/ \E c \in DOMAIN ljobs : LoadYield(c)
    \/ LoadReturn
    \/ \E q \in Queries : Resolve(q)
    \/ \E q \in Queries : WikiRoute(q)
    \/ \E q \in Queries : ExactTitle(q)
    \/ \E q \in Queries : TitleRoute(q)
    \/ \E q \in OffsetsQueries : OffsetsRoute(q)

Spec == Init /\ [][Next]_vars

(***************************************************************************)
(* The two drivers alone, with a pool of any size from 1 to MaxWorkers and *)
(* a fair worker pool.                                                     *)
(***************************************************************************)
\* Source tries with one and with two partitions to build.
DriverTries ==
    {[k \in {<<33>>} |-> <<1007>>],
     [k \in {<<65>>, <<33>>} |-> IF k = <<65>> THEN <<1007>> ELSE <<0 - 5000>>]}

\* The directories the drivers start from: those of Init, and one that
\* holds the file of ordinal 200.
DriverDirs == InitialDirs \cup {[f \in {OutOfRangeName} |-> StaleTrie]}

DriverInit ==
    /\ trie \in DriverTries
    /\ dir \in DriverDirs
    /\ bpc = "idle"
    /\ bjobs = [i \in DOMAIN ALLOWED |-> "none"]
    /\ bseen = {}
    /\ bprinted = {}
    /\ lpc = "idle"
    /\ paths_by_first_char = EmptyTrie
    /\ ljobs = EmptyTrie
    /\ lseen = {}
    /\ lprinted = {}
    /\ tries = <<>>
    /\ TITLE_TRIES = <<>>
    /\ TITLE_OFFSETS = <<>>
    /\ query = <<>>
    /\ result = NoRet
    /\ wresp = NoRet
    /\ tresp = NoTRet
    /\ pure = NoPure
    /\ nreq = 0
    /\ max_threads \in 1..MaxWorkers

DriverNext ==
    \/ BuildSubmit
    \/ \E i \in DOMAIN ALLOWED : BuildJobStart(i)
    \/ \E i \in DOMAIN ALLOWED : BuildJobOk(i)
    \/ \E i \in DOMAIN ALLOWED : BuildJobFail(i)
    \/ \E i \in DOMAIN ALLOWED : BuildYield(i)
    \/ BuildReturn
    \/ LoadSubmit
    \/ \E c \in DOMAIN ljobs : LoadJobStart(c)
    \/ \E c \in DOMAIN ljobs : LoadJobOk(c)
    \/ \E c \in DOMAIN ljobs : LoadJobFail(c)
    \/ \E c \in DOMAIN ljobs : LoadYield(c)
    \/ LoadReturn

\* The pool starts a queued job when a worker is free, a running job
\* returns or raises, as_completed yields a completed future, and the
\* driver leaves an exhausted loop.
DriverFairness ==
    /\ WF_vars(\E i \in DOMAIN ALLOWED : BuildJobStart(i))
    /\ WF_vars(\E i \in DOMAIN ALLOWED : BuildJobOk(i) \/ BuildJobFail(i))
    /\ WF_vars(\E i \in DOMAIN ALLOWED : BuildYield(i))
    /\ WF_vars(BuildReturn)
    /\ WF_vars(\E c \in DOMAIN ljobs : LoadJobStart(c))
    /\ WF_vars(\E c \in DOMAIN ljobs : LoadJobOk(c) \/ LoadJobFail(c))
    /\ WF_vars(\E c \in DOMAIN ljobs : LoadYield(c))
    /\ WF_vars(LoadReturn)

DriverSpec == DriverInit /\ [][DriverNext]_vars /\ DriverFairness

(***************************************************************************)
(* Direct calls of the helper functions, on tries whose offset lists are   *)
(* sorted and free of duplicates but may repeat an absolute value under    *)
(* another key or sign.                                                    *)
(***************************************************************************)
OffsetLists ==
    {<<0 - 5000>>, <<1007>>, <<5000>>,
     <<0 - 5000, 1007>>, <<0 - 5000, 5000>>, <<1007, 5000>>}

HelperTries ==
    UNION {[ks -> OffsetLists] : ks \in (SUBSET Keys) \ {{}}}

\* The tuples `chars` given to extract_trie and extract_and_save:
\* ('A',), ('A', 'A'), ('A', 'AB'), ('AB', 'A'), ('!',), ('!', 'A').
CharTuples ==
    {<< <<65>> >>, << <<65>>, <<65>> >>, << <<65>>, <<65, 66>> >>,
     << <<65, 66>>, <<65>> >>, << <<33>> >>, << <<33>>, <<65>> >>}

\* The offsets looked up in the table.
LookupOffsets == {1007, 3000, 5000}

\* The lists of the result of extract_trie are the list objects of the
\* source trie (`result[key] = value`), so an append to one of them shows
\* in the source.
Aliased(t, res) ==
    [k \in DOMAIN t |-> IF k \in DOMAIN res THEN res[k] ELSE t[k]]

HelperInit ==
    /\ trie \in HelperTries
    /\ dir = EmptyTrie
    /\ bpc = "idle"
    /\ bjobs = [i \in DOMAIN ALLOWED |-> "none"]
    /\ bseen = {}
    /\ bprinted = {}
    /\ lpc = "idle"
    /\ paths_by_first_char = EmptyTrie
    /\ ljobs = EmptyTrie
    /\ lseen = {}
    /\ lprinted = {}
    /\ tries = <<>>
    /\ TITLE_TRIES = <<>>
    /\ TITLE_OFFSETS = <<>>
    /\ query = <<>>
    /\ result = NoRet
    /\ wresp = NoRet
    /\ tresp = NoTRet
    /\ pure = NoPure
    /\ nreq = 0
    /\ max_threads = MaxWorkers

\* get_sorted_values_from_trie(trie); the array is what titles_offsets.npy
\* holds and TITLE_OFFSETS loads.
SortValues ==
    /\ nreq < MaxCalls
    /\ nreq' = nreq + 1
    /\ TITLE_OFFSETS' = get_sorted_values_from_trie(trie)
    /\ pure' = [op |-> "get_sorted_values_from_trie", arg |-> <<>>,
                val |-> get_sorted_values_from_trie(trie)]
    /\ UNCHANGED <<max_threads, trie, dir, bpc, bjobs, bseen, bprinted, lpc,
                   paths_by_first_char, ljobs, lseen, lprinted, tries,
                   TITLE_TRIES, query, result, wresp, tresp>>

\* offsets.searchsorted(o, side='right') on the table.
LookupNext(o) ==
    /\ nreq < MaxCalls
    /\ nreq' = nreq + 1
    /\ TITLE_OFFSETS # <<>>
    /\ pure' = [op |-> "searchsorted", arg |-> <<o>>,
                val |-> <<SearchSortedRight(TITLE_OFFSETS, o)>>]
    /\ UNCHANGED <<max_threads, trie, dir, bpc, bjobs, bseen, bprinted, lpc,
                   paths_by_first_char, ljobs, lseen, lprinted, tries,
                   TITLE_TRIES, TITLE_OFFSETS, query, result, wresp, tresp>>

\* extract_trie(trie, chars)
ExtractTrie(chars) ==
    /\ nreq < MaxCalls
    /\ nreq' = nreq + 1
    /\ pure' = [op |-> "extract_trie", arg |-> chars,
                val |-> extract_trie(trie, chars)]
    /\ trie' = Aliased(trie, extract_trie(trie, chars))
    /\ UNCHANGED <<max_threads, dir, bpc, bjobs, bseen, bprinted, lpc,
                   paths_by_first_char, ljobs, lseen, lprinted, tries,
                   TITLE_TRIES, TITLE_OFFSETS, query, result, wresp, tresp>>

\* extract_and_save(trie, chars)
ExtractAndSave(chars) ==
    /\ nreq < MaxCalls
    /\ nreq' = nreq + 1
    /\ pure' = [op |-> "extract_and_save", arg |-> chars, val |-> <<>>]
    /\ dir' = extract_and_save(dir, trie, chars)
    /\ trie' = Aliased(trie, extract_trie(trie, chars))
    /\ UNCHANGED <<max_threads, bpc, bjobs, bseen, bprinted, lpc,
                   paths_by_first_char, ljobs, lseen, lprinted, tries,
                   TITLE_TRIES, TITLE_OFFSETS, query, result, wresp, tresp>>

\* The frequency trie files a directory can hold: none, one
\* (freq_titles_1c.trie) or two.
FreqPaths == {<<>>, << <<49>> >>, << <<49>>, <<50>> >>}

\* The class names given to get_classes_from_strings_parallel: none, 'a',
\* or 'a' and 'b'.
ClassNames == {<<>>, << <<97>> >>, << <<97>>, <<98>> >>}

\* The orders in which n futures can complete.
Orders(n) == {o \in [1..n -> 1..n] : \A i, j \in 1..n : o[i] = o[j] => i = j}

\* load_freq_tries_parallel(directory)
LoadFreqTries(paths, failed) ==
    /\ nreq < MaxCalls
    /\ nreq' = nreq + 1
    /\ pure' = [op |-> "load_freq_tries_parallel", arg |-> paths,
                val |-> load_freq_tries_parallel(paths, failed, MaxWorkers)]
    /\ UNCHANGED <<max_threads, trie, dir, bpc, bjobs, bseen, bprinted, lpc,
                   paths_by_first_char, ljobs, lseen, lprinted, tries,
                   TITLE_TRIES, TITLE_OFFSETS, query, result, wresp, tresp>>

\* get_classes_from_strings_parallel(class_names)
GetClasses(class_names, failed, order) ==
    /\ nreq < MaxCalls
    /\ nreq' = nreq + 1
    /\ pure' = [op |-> "get_classes_from_strings_parallel",
                arg |-> class_names,
                val |-> get_classes_from_strings_parallel(
                            class_names, failed, order, MaxWorkers)]
    /\ UNCHANGED <<max_threads, trie, dir, bpc, bjobs, bseen, bprinted, lpc,
                   paths_by_first_char, ljobs, lseen, lprinted, tries,
                   TITLE_TRIES, TITLE_OFFSETS, query, result, wresp, tresp>>

HelperNext ==
    \/ SortValues
    \/ \E o \in LookupOffsets : LookupNext(o)
    \/ \E chars \in CharTuples : ExtractTrie(chars)
    \/ \E chars \in CharTuples : ExtractAndSave(chars)
    \/ \E paths \in FreqPaths : \E failed \in SUBSET DOMAIN paths :
           LoadFreqTries(paths, failed)
    \/ \E class_names \in ClassNames :
           \E failed \in SUBSET DOMAIN class_names :
               \E order \in Orders(Len(class_names)) :
                   GetClasses(class_names, failed, order)

HelperSpec == HelperInit /\ [][HelperNext]_vars

(***************************************************************************)
(* Properties.                                                             *)
(***************************************************************************)
Published == lpc = "returned"

Resolved == result.kind # "none"
Routed == wresp.kind # "none"

\* The partition a lookup of q reads, for a first character below 127.
PartitionOf(q) == TITLE_TRIES[q[1] + 1].t

InRange(q) == Len(q) >= 1 /\ q[1] < PARTITIONS

\* The ranges of a returned list that carry key k.
RangesOf(k) == {i \in DOMAIN result.val : result.val[i][1] = k}

TableMax == TITLE_OFFSETS[Len(TITLE_OFFSETS)]

\* The query is an exact key whose first offset is the last of the table.
LastRecordQuery ==
    /\ Published
    /\ InRange(query)
    /\ query \in DOMAIN PartitionOf(query)
    /\ Abs(FirstOffset(PartitionOf(query)[query])) = TableMax

\* C1: resolving the title of the last record of the corpus raises nothing:
\* get_page_offsets_for_key returns a list with a range for the title and
\* the wiki route answers with a range.
C1_LastRecordSentinel ==
    LastRecordQuery =>
        /\ Resolved => result.kind = "list" /\ RangesOf(query) # {}
        /\ Routed => wresp.kind = "range"

\* Two files of the directory whose names parse to the same ordinal.
DuplicateOrdinal(d) ==
    \E f, g \in DOMAIN d :
        /\ f # g
        /\ Len(Split(f)) = 2 /\ IsDigits(Split(f)[1])
        /\ Len(Split(g)) = 2 /\ IsDigits(Split(g)[1])
        /\ ParseInt(Split(f)[1]) = ParseInt(Split(g)[1])

\* C2: when two partition files encode the same ordinal, the load never
\* returns an index.
C2_DuplicateOrdinalFails ==
    DuplicateOrdinal(dir) => lpc # "returned"

FailedJobs(jobs) == {j \in DOMAIN jobs : jobs[j] = "failed"}

\* C3: when a load job has failed, load_wiki_tries_parallel does not return
\* normally.
C3_LoadFailureSurfaces ==
    lpc = "returned" => FailedJobs(ljobs) = {}

\* What extract_and_save_all_chars_parallel hands to its caller: it returns
\* None and raises nothing, so no failure is reported.
BuildReported == {}

\* C4: when the build driver has returned, every failed job is among the
\* failures reported to the caller.
C4_BuildReportsFailures ==
    bpc = "returned" => FailedJobs(bjobs) \subseteq BuildReported

C6_AbsentIsEmpty ==
    (Resolved /\ Len(query) >= 1 /\ query \notin DOMAIN trie)
        => result = Ret("list", <<>>)

\* C7 as stated: a title stored with k offsets gets exactly k ranges, one
\* per stored offset, in the order of the offset list.
C7_OneRangePerOffset ==
    (Resolved /\ result.kind = "list" /\ InRange(query)
       /\ query \in DOMAIN PartitionOf(query)) =>
        LET value == PartitionOf(query)[query]
            mine == SelectSeq(result.val, LAMBDA r : r[1] = query)
        IN /\ Len(mine) = Len(value)
           /\ \A i \in DOMAIN mine : mine[i][2] = Abs(value[i]) - uint64_7

\* C7 amended: a title stored with k >= 1 offsets gets exactly one range in
\* a returned list, computed from the first entry of its offset list, and
\* the list holds one range per key of the partition starting with the
\* query.
C7_OneRangePerKey ==
    (Resolved /\ result.kind = "list" /\ InRange(query)
       /\ query \in DOMAIN PartitionOf(query)) =>
        LET value == PartitionOf(query)[query]
        IN /\ Cardinality(RangesOf(query)) = 1
           /\ \A i \in RangesOf(query) :
                  result.val[i][2] = Abs(value[1]) - uint64_7
           /\ Len(result.val) =
                  Cardinality({k \in DOMAIN PartitionOf(query) :
                                  IsPrefix(query, k)})

\* A title stored with two offsets was resolved.
C7_Witness ==
    /\ Resolved /\ result.kind = "list" /\ InRange(query)
    /\ FailedJobs(bjobs) = {} /\ FailedJobs(ljobs) = {}
    /\ query \in DOMAIN PartitionOf(query)
    /\ Len(PartitionOf(query)[query]) = 2

\* The smallest entry of the offset table strictly greater than o, or 0
\* when there is none.
Successor(o) ==
    LET above == {j \in DOMAIN TITLE_OFFSETS : TITLE_OFFSETS[j] > o}
    IN IF above = {} THEN 0
       ELSE TITLE_OFFSETS[CHOOSE j \in above : \A i \in above : j <= i]

\* C8: every range of a returned list has start = abs(o) - 7 and
\* end = n - 11, for o the offset it was computed from and n the smallest
\* table entry above abs(o); the title 'C', which no stored key starts
\* with, resolves to the empty list.
C8_RangeArithmetic ==
    /\ (Resolved /\ result.kind = "list") =>
          \A i \in DOMAIN result.val :
              LET o == Abs(PartitionOf(query)[result.val[i][1]][1])
              IN /\ Successor(o) > 0
                 /\ result.val[i][2] = o - uint64_7
                 /\ result.val[i][3] = Successor(o) - uint64_11
    /\ (Resolved /\ query = <<67>>) => result = Ret("list", <<>>)

\* The scenario of the specification: 'A' -> [1007], offsets
\* [1007, 5000, 9000], resolve('A') = [('A', 1000, 4989)].
C8_Witness ==
    /\ Resolved
    /\ FailedJobs(bjobs) = {} /\ FailedJobs(ljobs) = {}
    /\ ~DuplicateOrdinal(dir)
    /\ query \in DOMAIN trie /\ trie[query] = <<1007>>
    /\ TITLE_OFFSETS = <<1007, 5000, 9000>>
    /\ query = <<65>>
    /\ query \in DOMAIN PartitionOf(query)
    /\ PartitionOf(query)[query] = <<1007>>
    /\ result = Ret("list", << <<query, 1000, 4989>> >>)

\* C9: for a title of the source index the resolver returns a non-empty
\* list, each range with start < end <= corpus length.  Stated for the
\* runs in which every build and load job succeeded and no two partition
\* files share an ordinal.
C9_PresentHasRanges ==
    (Resolved /\ query \in DOMAIN trie /\ ~DuplicateOrdinal(dir)
       /\ FailedJobs(bjobs) = {} /\ FailedJobs(ljobs) = {}) =>
        /\ result.kind = "list"
        /\ result.val # <<>>
        /\ \A i \in DOMAIN result.val :
               /\ result.val[i][2] < result.val[i][3]
               /\ result.val[i][3] <= CorpusLen

\* The slots of the published index that hold key k, as ordinals.
SlotsOf(k) == {i \in 0..(PARTITIONS - 1) : k \in DOMAIN TITLE_TRIES[i + 1].t}

\* C10: after a build in which every job succeeded, followed by a load,
\* every title of the source trie is in exactly one slot, the one of its
\* first character, and no slot holds a title with another first character.
C10_PartitionTotalExclusive ==
    (Published /\ FailedJobs(bjobs) = {}) =>
        /\ \A k \in DOMAIN trie : SlotsOf(k) = {k[1]}
        /\ \A i \in 0..(PARTITIONS - 1) :
               \A k \in DOMAIN TITLE_TRIES[i + 1].t : k[1] = i

\* Every offset value stored under any key of the trie.
StoredOffsets(t) == UNION {Range(t[k]) : k \in DOMAIN t}

\* C11: the table made by get_sorted_values_from_trie is strictly
\* ascending and its entries are exactly the absolute values of the offsets
\* stored in the trie, each once.
C11_TableSortedUnique ==
    pure.op = "get_sorted_values_from_trie" =>
        /\ \A i, j \in DOMAIN pure.val : i < j => pure.val[i] < pure.val[j]
        /\ Range(pure.val) = {Abs(o) : o \in StoredOffsets(trie)}

\* The table was made from a trie that stores 5000 and -5000.
C11_Witness ==
    /\ pure.op = "get_sorted_values_from_trie"
    /\ {5000, 0 - 5000} \subseteq StoredOffsets(trie)
    /\ Len(pure.val) >= 1

\* C12: for an offset of the table that is not its last entry,
\* searchsorted(o, side='right') is the index of the smallest entry
\* strictly greater than o.
C12_NextIsSuccessor ==
    (pure.op = "searchsorted"
       /\ pure.arg[1] \in Range(TITLE_OFFSETS)
       /\ pure.arg[1] # TableMax) =>
        /\ pure.val[1] + 1 \in DOMAIN TITLE_OFFSETS
        /\ TITLE_OFFSETS[pure.val[1] + 1] > pure.arg[1]
        /\ \A j \in DOMAIN TITLE_OFFSETS :
               TITLE_OFFSETS[j] > pure.arg[1]
                   => TITLE_OFFSETS[pure.val[1] + 1] <= TITLE_OFFSETS[j]

\* An offset of the table with a successor was looked up.
C12_Witness ==
    /\ pure.op = "searchsorted"
    /\ pure.arg[1] \in Range(TITLE_OFFSETS)
    /\ pure.arg[1] # TableMax

\* The keys of t that start with one of the prefixes of chars.
Selected(t, chars) ==
    {k \in DOMAIN t : \E i \in DOMAIN chars : IsPrefix(chars[i], k)}

Served == nreq > 0

\* C14: TITLE_TRIES is assigned, and a lookup is served, only when every
\* load job has finished and its future has been consumed; every populated
\* slot of the published index holds the whole content of its file.
C14_AllOrNothingPublish ==
    (TITLE_TRIES # <<>> \/ Served) =>
        /\ lpc = "returned"
        /\ Running(ljobs) = {}
        /\ Completed(ljobs) = DOMAIN ljobs
        /\ lseen = DOMAIN ljobs
        /\ TITLE_TRIES = tries
        /\ \A i \in DOMAIN TITLE_TRIES :
               TITLE_TRIES[i].loaded =>
                   /\ i - 1 \in DOMAIN paths_by_first_char
                   /\ TITLE_TRIES[i].t = dir[paths_by_first_char[i - 1]]

\* The index of two partitions is published and a lookup has read it.
C14_Witness ==
    /\ Served
    /\ Cardinality(DOMAIN ljobs) = 2
    /\ \E i \in DOMAIN TITLE_TRIES : TITLE_TRIES[i].loaded

\* The reference store seen as an index: every first character resolves
\* against the source trie itself.
ReferenceIndex == [i \in 1..PARTITIONS |-> Loaded(trie)]

\* C15: after a build into an empty directory in which every job persisted
\* its partition, followed by a load, resolving a title against the loaded
\* index gives what resolving it against the reference store gives, with the
\* same range arithmetic.
C15_RoundTripLossless ==
    (Resolved /\ StaleName \notin DOMAIN dir /\ FailedJobs(bjobs) = {}) =>
        result = get_page_offsets_for_key(query, ReferenceIndex, TITLE_OFFSETS)

\* The lookup that was served read a slot that is None.
NoneSlotLookup ==
    /\ Served
    /\ InRange(query)
    /\ ~TITLE_TRIES[query[1] + 1].loaded

\* C16: a lookup whose slot is None is a not-found result in every entry
\* point: get_page_offsets_for_key returns the empty list, exact_title the
\* empty JSON list, and the wiki and title routes answer 404.
C16_NoneSlotNotFound ==
    (NoneSlotLookup /\ FailedJobs(bjobs) = {} /\ FailedJobs(ljobs) = {}) =>
        /\ Resolved => result = Ret("list", <<>>)
        /\ Routed => wresp = Ret("404", <<>>)
        /\ tresp.entry = "exact_title" =>
               tresp = TRet("exact_title", "json", <<>>)
        /\ tresp.entry = "title" => tresp = TRet("title", "404", <<>>)

\* C17: a lookup of the empty string gets the rejection result of its entry
\* point, the same result the entry point gives when no index exists.
C17_EmptyTitleRejected ==
    (Served /\ query = <<>>) =>
        /\ Resolved =>
               /\ result = Ret("None", <<>>)
               /\ result = get_page_offsets_for_key(query, <<>>, <<>>)
        /\ Routed =>
               /\ wresp = Ret("400", <<>>)
               /\ wresp = wiki(query, <<>>, <<>>)
        /\ tresp.entry = "exact_title" =>
               /\ tresp = TRet("exact_title", "json", <<>>)
               /\ tresp = exact_title(query, <<>>)
        /\ tresp.entry = "title" =>
               /\ tresp = TRet("title", "400", <<>>)
               /\ tresp = title(query, <<>>)

\* exact_title('') was called on a published index with a populated slot.
C17_Witness ==
    /\ Served
    /\ query = <<>>
    /\ tresp.entry = "exact_title"
    /\ \E i \in DOMAIN TITLE_TRIES : TITLE_TRIES[i].loaded

\* A file of the directory has a name that does not split into two fields.
MalformedIn(d) == \E f \in DOMAIN d : Len(Split(f)) # 2

\* C18: when a partition file name does not split into two fields,
\* get_wiki_tries raises: no load job is submitted, the list of slots is
\* not made, no index is published and no lookup is served.
C18_MalformedNameFailsFast ==
    (MalformedIn(dir) /\ lpc # "idle") =>
        /\ lpc = "raised"
        /\ DOMAIN ljobs = {}
        /\ paths_by_first_char = EmptyTrie
        /\ tries = <<>>
        /\ TITLE_TRIES = <<>>
        /\ ~Served

\* The load raised on a directory that holds a malformed name next to a
\* partition file the build wrote.
C18_Witness ==
    /\ lpc = "raised"
    /\ MalformedIn(dir)
    /\ \E f \in DOMAIN dir : Len(Split(f)) = 2

\* A step in which job j of jobs fails leaves every other job as it was.
FailureIsLocal(jobs, jobsNext) ==
    \A j \in DOMAIN jobs :
        (jobs[j] # "failed" /\ jobsNext[j] = "failed") =>
            /\ jobs[j] = "running"
            /\ \A k \in DOMAIN jobs \ {j} : jobsNext[k] = jobs[k]

\* The partition file of build job i is in the directory.
Persisted(i) ==
    LET res == extract_trie(trie, << <<ALLOWED[i]>> >>)
        filename == FileName(<< <<ALLOWED[i]>> >>, Cardinality(DOMAIN res))
    IN res # EmptyTrie => (filename \in DOMAIN dir /\ dir[filename] = res)

\* The slot of load job c holds the trie of its file.
Populated(c) ==
    c < PARTITIONS => tries[c + 1] = Loaded(dir[paths_by_first_char[c]])

\* What a driver that has returned leaves behind when a job failed: every
\* other job ran to its end and its outcome is there.
SiblingsFinished ==
    /\ (bpc = "returned" /\ FailedJobs(bjobs) # {}) =>
           \A i \in DOMAIN bjobs \ FailedJobs(bjobs) :
               bjobs[i] = "ok" /\ Persisted(i)
    /\ (lpc = "returned" /\ FailedJobs(ljobs) # {}) =>
           \A c \in DOMAIN ljobs \ FailedJobs(ljobs) :
               ljobs[c] = "ok" /\ Populated(c)

\* C19: a build or load job that fails changes no other job, and when the
\* driver has returned every job that did not fail itself has run to its
\* end and produced its partition file or its slot.
C19_FailureDoesNotAbortSiblings ==
    /\ []SiblingsFinished
    /\ [][FailureIsLocal(bjobs, bjobs') /\ FailureIsLocal(ljobs, ljobs')]_vars

\* The load has returned after one load job failed and another populated
\* its slot, and the build has returned after one job failed and another
\* wrote its file.
C19_Witness ==
    /\ lpc = "returned"
    /\ FailedJobs(ljobs) # {}
    /\ \E c \in DOMAIN ljobs : ljobs[c] = "ok" /\ tries[c + 1].loaded
    /\ FailedJobs(bjobs) # {}
    /\ \E i \in DOMAIN bjobs :
           bjobs[i] = "ok" /\ extract_trie(trie, << <<ALLOWED[i]>> >>) # EmptyTrie

\* Build job i extracts something, so it saves a file.
Writes(i) == extract_trie(trie, << <<ALLOWED[i]>> >>) # EmptyTrie

\* The file build job i saves.
TargetFile(i) ==
    FileName(<< <<ALLOWED[i]>> >>,
             Cardinality(DOMAIN extract_trie(trie, << <<ALLOWED[i]>> >>)))

\* C20: no two build jobs that run at the same time write the same
\* partition file.
C20_OneWriterPerFile ==
    \A i, j \in Running(bjobs) :
        (i # j /\ Writes(i) /\ Writes(j)) => TargetFile(i) # TargetFile(j)

\* Every job of a driver that has returned is completed and its future has
\* been consumed by the as_completed loop.
AllJobsDone ==
    /\ bpc = "returned" =>
           /\ Completed(bjobs) = DOMAIN bjobs
           /\ bseen = DOMAIN bjobs
    /\ lpc = "returned" =>
           /\ Completed(ljobs) = DOMAIN ljobs
           /\ lseen = DOMAIN ljobs

\* No step taken after a driver has returned changes a job of that driver
\* or anything its jobs and its loop record.
NothingAfterReturn ==
    /\ bpc = "returned" =>
           /\ bpc' = "returned"
           /\ <<bjobs, bseen, bprinted, dir>>' = <<bjobs, bseen, bprinted, dir>>
    /\ lpc = "returned" =>
           /\ lpc' = "returned"
           /\ <<ljobs, lseen, lprinted, tries>>' = <<ljobs, lseen, lprinted, tries>>

\* C21: when the build or the load driver has returned, every job it
\* submitted is completed, successfully or with an error, and afterwards no
\* job runs and no result of a job is recorded.
C21_ReturnAfterAllJobs ==
    /\ []AllJobsDone
    /\ [][NothingAfterReturn]_vars

\* Both drivers have returned; the build had a failed job and a job that
\* wrote its file, the load had two jobs.
C21_Witness ==
    /\ bpc = "returned"
    /\ lpc = "returned"
    /\ FailedJobs(bjobs) # {}
    /\ \E i \in DOMAIN bjobs : bjobs[i] = "ok" /\ Writes(i)
    /\ Cardinality(DOMAIN ljobs) = 2

\* C22: with a fair worker pool in which every job returns or raises, a
\* build driver that has submitted its jobs returns, and so does a load
\* driver, for every pool size from 1 to MaxWorkers and also when jobs
\* fail.
C22_DriversReturn ==
    /\ (bpc = "running") ~> (bpc = "returned")
    /\ (lpc = "running") ~> (lpc = "returned")

\* Both drivers have returned with a pool of one thread although a build
\* job and a load job failed.
C22_Witness ==
    /\ max_threads = 1
    /\ bpc = "returned"
    /\ lpc = "returned"
    /\ FailedJobs(bjobs) # {}
    /\ FailedJobs(ljobs) # {}

\* A step that serves a lookup.
LookupStep == nreq' = nreq + 1

ExtractStep ==
    /\ nreq' = nreq + 1
    /\ pure'.op \in {"extract_trie", "extract_and_save"}

\* C24: a call of extract_trie or extract_and_save, whatever its prefixes,
\* leaves every key of the source trie with the offset list it had, in the
\* same order.
C24_SourceUnchanged ==
    [][ExtractStep =>
          /\ DOMAIN trie' = DOMAIN trie
          /\ \A k \in DOMAIN trie : trie'[k] = trie[k]]_vars

\* extract_and_save was called with the prefix 'A' twice on a trie that
\* stores two offsets under a key starting with 'A', and saved its file.
C24_Witness ==
    /\ pure.op = "extract_and_save"
    /\ pure.arg = << <<65>>, <<65>> >>
    /\ \E k \in DOMAIN trie : k[1] = 65 /\ Len(trie[k]) = 2
    /\ DOMAIN dir # {}

\* C25: when the load has returned, every load job that succeeded has an
\* ordinal from 0 to 126 and its file is in the slot of that ordinal.
C25_OrdinalSlot ==
    lpc = "returned" =>
        \A c \in DOMAIN ljobs :
            ljobs[c] = "ok" =>
                /\ c < PARTITIONS
                /\ TITLE_TRIES[c + 1] = Loaded(dir[paths_by_first_char[c]])

\* C26: called with no work, load_freq_tries_parallel and
\* get_classes_from_strings_parallel return an empty list and raise
\* nothing.
C26_ZeroWorkReturnsEmpty ==
    (pure.op \in {"load_freq_tries_parallel",
                  "get_classes_from_strings_parallel"}
       /\ pure.arg = <<>>) =>
        pure.val = DRet("return", <<>>)

====
